---- MODULE Spec2Model ----
(***************************************************************************)
(* Model of package keyboard (src/main.go): the Manager that keeps the     *)
(* registry of key-combination bindings, the set of pressed keys and the   *)
(* set of combos already fired, and dispatches callbacks from HandleEvent. *)
(*                                                                         *)
(* A Go string is a sequence of one-character strings, so that ToUpper,    *)
(* Split, Join and TrimPrefix are computed as the strings package does.    *)
(***************************************************************************)
EXTENDS Integers, Sequences, FiniteSets, TLC

VARIABLES
    bindings,         \* Manager.bindings: normalized combo -> callback
    pressed,          \* Manager.pressed, used as a set of key codes
    fired,            \* Manager.fired, used as a set of combos
    suppressRepeats,  \* Manager.suppressRepeats
    last,             \* the most recent call: its arguments, the candidate it built, the goroutine it started
    recent,           \* history: per key, the type of its most recent Press/Release event
    script,           \* history: progress of the calls so far along Scenario
    script2,          \* history: progress of the calls so far along Overwrite
    tally,            \* history: dispatches per combo since the last Release of its trailing key
    mu,               \* Manager.mu: TRUE while locked
    pump,             \* the goroutine that calls HandleEvent for each event: its position
    regs,             \* the goroutines that call RegisterBinding or SuppressRepeats: their positions
    gor,              \* the goroutines started by `go cb()`, in the order started: their positions
    completed,        \* history: the Registry keys of the RegisterBinding calls that returned
    rd,               \* the goroutine started by Listen: its position, and the event it sends
    reads,            \* history: the input events ReadOne returned, in order
    got,              \* history: the events received from the channel, in order
    consumer          \* the goroutine that receives from the channel: its position

\* The Manager and the history of its calls
mgrVars == <<bindings, pressed, fired, suppressRepeats, last, recent, script, script2, tally>>

\* The goroutines that use the Manager
concVars == <<mu, pump, regs, gor, completed>>

\* Listen, and the receiver of its channel
listenVars == <<rd, reads, got, consumer>>

vars == <<mgrVars, concVars, listenVars>>

----------------------------------------------------------------------------
(* Bounds of the model *)

\* RegisterBinding is explored while the registry holds fewer keys than this.
MaxBindings == 1

\* The event pump handles this many events, then stops.
MaxPumped == 2

\* The device returns this many input events, then fails.
MaxReads == 3

----------------------------------------------------------------------------
(* Go strings *)

LowerCase == <<"a","b","c","d","e","f","g","h","i","j","k","l","m",
               "n","o","p","q","r","s","t","u","v","w","x","y","z">>
UpperCase == <<"A","B","C","D","E","F","G","H","I","J","K","L","M",
               "N","O","P","Q","R","S","T","U","V","W","X","Y","Z">>

\* unicode.ToUpper on the ASCII letters
UpperOf ==
    [c \in {LowerCase[i] : i \in 1..Len(LowerCase)} |->
        UpperCase[CHOOSE i \in 1..Len(LowerCase) : LowerCase[i] = c]]

\* strings.ToUpper on one character
ToUpperChar(c) == IF c \in DOMAIN UpperOf THEN UpperOf[c] ELSE c

\* strings.ToUpper
ToUpper(s) == [i \in 1..Len(s) |-> ToUpperChar(s[i])]

\* strings.HasPrefix
HasPrefix(s, p) == Len(s) >= Len(p) /\ SubSeq(s, 1, Len(p)) = p

\* strings.TrimPrefix
TrimPrefix(s, p) == IF HasPrefix(s, p) THEN SubSeq(s, Len(p) + 1, Len(s)) ELSE s

\* strings.Index: the first position where sep occurs in s, 0 when it does not
Index(s, sep) ==
    LET hits == {i \in 1..(Len(s) - Len(sep) + 1) : SubSeq(s, i, i + Len(sep) - 1) = sep}
    IN  IF hits = {} THEN 0 ELSE CHOOSE i \in hits : \A j \in hits : i <= j

\* strings.Split with a non-empty separator
RECURSIVE Split(_, _)
Split(s, sep) ==
    LET i == Index(s, sep)
    IN  IF i = 0 THEN <<s>>
        ELSE <<SubSeq(s, 1, i - 1)>> \o Split(SubSeq(s, i + Len(sep), Len(s)), sep)

\* strings.Join
RECURSIVE Join(_, _)
Join(parts, sep) ==
    IF Len(parts) = 0 THEN <<>>
    ELSE IF Len(parts) = 1 THEN parts[1]
    ELSE parts[1] \o sep \o Join(Tail(parts), sep)

----------------------------------------------------------------------------
(* String constants of the source and of its documented usage *)

str_KEY   == <<"K","E","Y","_">>
str_LEFT  == <<"L","E","F","T">>
str_RIGHT == <<"R","I","G","H","T">>
str_CTRL  == <<"C","T","R","L">>
str_ALT   == <<"A","L","T">>
str_SHIFT == <<"S","H","I","F","T">>
str_META  == <<"M","E","T","A">>
str_T     == <<"T">>
str_O     == <<"O">>
str_PLUS  == <<"+">>

KEY_LEFTCTRL   == str_KEY \o str_LEFT \o str_CTRL
KEY_RIGHTCTRL  == str_KEY \o str_RIGHT \o str_CTRL
KEY_LEFTSHIFT  == str_KEY \o str_LEFT \o str_SHIFT
KEY_RIGHTSHIFT == str_KEY \o str_RIGHT \o str_SHIFT
KEY_LEFTALT    == str_KEY \o str_LEFT \o str_ALT
KEY_RIGHTALT   == str_KEY \o str_RIGHT \o str_ALT
KEY_LEFTMETA   == str_KEY \o str_LEFT \o str_META
KEY_RIGHTMETA  == str_KEY \o str_RIGHT \o str_META
KEY_T          == str_KEY \o str_T
KEY_O          == str_KEY \o str_O

\* "CTRL+ALT+T", the combo of the documented usage, and other spellings
CTRL_ALT_T  == str_CTRL \o str_PLUS \o str_ALT \o str_PLUS \o str_T
ALT_CTRL_T  == str_ALT \o str_PLUS \o str_CTRL \o str_PLUS \o str_T
CTRL_T      == str_CTRL \o str_PLUS \o str_T
LEFTCTRL_T  == str_LEFT \o str_CTRL \o str_PLUS \o str_T
ctrl_t      == <<"c","t","r","l","+","t">>

----------------------------------------------------------------------------
(* EventType *)

Release == 0
Press   == 1
Hold    == 2

EventTypes == {Release, Press, Hold}


\* Event{Key, Type}
Event(key, type) == [Key |-> key, Type |-> type]

\* The key codes the event source delivers here (evdev code names).
Keys == {KEY_LEFTCTRL, KEY_LEFTALT, KEY_T}

Events == {Event(k, t) : k \in Keys, t \in EventTypes}

\* The combo strings passed to RegisterBinding.
Specifiers == {CTRL_ALT_T, ALT_CTRL_T, CTRL_T, LEFTCTRL_T, ctrl_t}

\* The BindingCallback values passed to RegisterBinding.
Callbacks == {"cb1", "cb2"}

\* No goroutine started.
NoCallback == "none"

----------------------------------------------------------------------------
(* Helpers of the Manager *)

\* isModifier
isModifier(key) ==
    key \in {KEY_LEFTCTRL, KEY_RIGHTCTRL,
             KEY_LEFTSHIFT, KEY_RIGHTSHIFT,
             KEY_LEFTALT, KEY_RIGHTALT,
             KEY_LEFTMETA, KEY_RIGHTMETA}

\* modifierName
modifierName(key) == TrimPrefix(TrimPrefix(TrimPrefix(key, str_KEY), str_LEFT), str_RIGHT)

\* keyName
keyName(key) == TrimPrefix(key, str_KEY)

\* Mutant of normalizeCombo: the parts are joined in reverse order.
normalizeCombo_Reversed(c) ==
    LET parts == Split(ToUpper(c), str_PLUS)
    IN  Join([i \in 1..Len(parts) |-> parts[Len(parts) + 1 - i]], str_PLUS)

\* Mutant of normalizeCombo: the combo is not upper-cased.
normalizeCombo_NoUpper(c) ==
    LET parts == Split(c, str_PLUS)
    IN  Join(parts, str_PLUS)

\* normalizeCombo
normalizeCombo(c) ==
    LET parts == Split(ToUpper(c), str_PLUS)
    IN  Join(parts, str_PLUS)

\* parts[len(parts)-1] of strings.Split(combo, "+")
LastPart(combo) ==
    LET parts == Split(combo, str_PLUS)
    IN  parts[Len(parts)]

\* The orders in which `for k := range m` can visit a map whose keys are S:
\* Go leaves the iteration order of a map unspecified.
RECURSIVE RangeOrders(_)
RangeOrders(S) ==
    IF S = {} THEN {<< >>}
    ELSE UNION {{<<k>> \o o : o \in RangeOrders(S \ {k})} : k \in S}

\* Mutant of PressedAfter: a Release does not delete the key.
PressedAfter_NoDelete(p, ev) ==
    IF ev.Type = Press THEN p \cup {ev.Key} ELSE p

\* HandleEvent, "update pressed keys": m.pressed after the event
PressedAfter(p, ev) ==
    IF ev.Type = Press THEN p \cup {ev.Key}
    ELSE IF ev.Type = Release THEN p \ {ev.Key}
    ELSE p

\* Mutant of FiredAfter: a Release purges nothing.
FiredAfter_NoPurge(f, ev, suppress) == f

\* Mutant of FiredAfter: a Release purges every combo.
FiredAfter_PurgeAll(f, ev, suppress) ==
    IF ev.Type = Release /\ suppress THEN {} ELSE f

\* HandleEvent, the Release branch: m.fired after the purge of the combos that end in the key
FiredAfter(f, ev, suppress) ==
    IF ev.Type = Release /\ suppress
    THEN {combo \in f : LastPart(combo) # keyName(ev.Key)}
    ELSE f

\* Mutant of FiringCheck: every event but a Release is taken for a Press.
FiringCheck_NotRelease(ev) == ev.Type # Release /\ ~isModifier(ev.Key)

\* Mutant of FiringCheck: a Release is checked like a Press.
FiringCheck_OnRelease(ev) == ev.Type # Hold /\ ~isModifier(ev.Key)

\* HandleEvent, the condition of the firing check
FiringCheck(ev) == ev.Type = Press /\ ~isModifier(ev.Key)

\* Mutant of ModifierParts: the name of every pressed key is taken, modifier or not.
RECURSIVE ModifierParts_AllKeys(_)
ModifierParts_AllKeys(order) ==
    IF Len(order) = 0 THEN <<>>
    ELSE <<modifierName(Head(order))>> \o ModifierParts_AllKeys(Tail(order))

\* HandleEvent, comboParts: the names of the pressed modifiers in the order visited, then the key
RECURSIVE ModifierParts(_)
ModifierParts(order) ==
    IF Len(order) = 0 THEN <<>>
    ELSE (IF isModifier(Head(order)) THEN <<modifierName(Head(order))>> ELSE <<>>)
         \o ModifierParts(Tail(order))

comboParts(order, key) == ModifierParts(order) \o <<keyName(key)>>

\* HandleEvent, the candidate combo
Candidate(order, key) == Join(comboParts(order, key), str_PLUS)

\* Mutant of Suppressed: the test is missing.
Suppressed_Never(f, combo, suppress) == FALSE

\* HandleEvent, the suppression test: the candidate already fired
Suppressed(f, combo, suppress) == suppress /\ combo \in f

\* Mutant of Recorded: the candidate is never recorded.
Recorded_Never(f, combo, suppress) == f

\* HandleEvent, m.fired[combo] = true under suppression: m.fired after the firing check
Recorded(f, combo, suppress) == IF suppress THEN f \cup {combo} ELSE f

\* HandleEvent, the bindings lookup: the callback started as a goroutine
Dispatch(b, combo) == IF combo \in DOMAIN b THEN b[combo] ELSE NoCallback

----------------------------------------------------------------------------
(* History *)

\* The calls of the documented usage followed by a repeated and a renewed press of T.
Scenario ==
    << [op |-> "SuppressRepeats"],
       [op |-> "RegisterBinding", combo |-> CTRL_ALT_T, cb |-> "cb1"],
       [op |-> "HandleEvent", ev |-> Event(KEY_LEFTCTRL, Press)],
       [op |-> "HandleEvent", ev |-> Event(KEY_LEFTALT, Press)],
       [op |-> "HandleEvent", ev |-> Event(KEY_T, Press)],
       [op |-> "HandleEvent", ev |-> Event(KEY_T, Press)],
       [op |-> "HandleEvent", ev |-> Event(KEY_T, Release)],
       [op |-> "HandleEvent", ev |-> Event(KEY_T, Press)] >>

ScriptOff == [pos |-> -1, n |-> 0]

\* script after `call`, which started `spawned`: pos calls of Scenario were made, and
\* nothing else, and they started n goroutines.
Track(s, call, spawned) ==
    IF s.pos >= 0 /\ s.pos < Len(Scenario) /\ Scenario[s.pos + 1] = call
    THEN [pos |-> s.pos + 1, n |-> s.n + (IF spawned = NoCallback THEN 0 ELSE 1)]
    ELSE ScriptOff

\* Two registrations that differ in letter case, then a Press of T with CTRL held.
Overwrite ==
    << [op |-> "RegisterBinding", combo |-> ctrl_t, cb |-> "cb1"],
       [op |-> "RegisterBinding", combo |-> CTRL_T, cb |-> "cb2"],
       [op |-> "HandleEvent", ev |-> Event(KEY_LEFTCTRL, Press)],
       [op |-> "HandleEvent", ev |-> Event(KEY_T, Press)] >>

\* As Track, along the calls of scen.
TrackAlong(scen, s, call, spawned) ==
    IF s.pos >= 0 /\ s.pos < Len(scen) /\ scen[s.pos + 1] = call
    THEN [pos |-> s.pos + 1, n |-> s.n + (IF spawned = NoCallback THEN 0 ELSE 1)]
    ELSE ScriptOff

\* tally is kept in the runs that start with suppression on, while it stays on.
TallyOff == [on |-> FALSE, n |-> << >>]

\* tally after HandleEvent(ev), which built `built` (no or one candidate) and started
\* `spawned`: the combos that end in a released key are dropped, the combo dispatched
\* is counted (2 stands for more than once).
TallyAfter(t, ev, built, spawned, suppress) ==
    IF ~t.on \/ ~suppress THEN TallyOff
    ELSE LET kept == {c \in DOMAIN t.n : ~(ev.Type = Release /\ LastPart(c) = keyName(ev.Key))}
             hit == IF spawned # NoCallback THEN {built[1]} ELSE {}
         IN  [on |-> TRUE,
              n |-> [c \in kept \cup hit |->
                        IF c \in hit
                        THEN (IF c \in kept /\ t.n[c] >= 1 THEN 2 ELSE 1)
                        ELSE t.n[c]]]

\* recent after the event
RecentAfter(r, ev) ==
    IF ev.Type \in {Press, Release} THEN [r EXCEPT ![ev.Key] = ev.Type] ELSE r

----------------------------------------------------------------------------
(* The Manager *)

\* No goroutine uses the Manager yet.
ThreadsIdle ==
    /\ mu = FALSE
    /\ pump = [pc |-> "idle", n |-> 0]
    /\ regs = << >>
    /\ gor = << >>
    /\ completed = {}

\* Listen was not called.
NotListening ==
    /\ rd = [pc |-> "none", pend |-> << >>]
    /\ reads = << >>
    /\ got = << >>
    /\ consumer = "none"

\* NewManager
Init ==
    /\ bindings = << >>
    /\ pressed = {}
    /\ fired = {}
    /\ suppressRepeats = FALSE
    /\ last = [op |-> "NewManager"]
    /\ recent = [k \in Keys |-> -1]
    /\ script = [pos |-> 0, n |-> 0]
    /\ script2 = [pos |-> 0, n |-> 0]
    /\ tally = TallyOff
    /\ ThreadsIdle
    /\ NotListening

\* SuppressRepeats
SuppressRepeats ==
    /\ suppressRepeats' = TRUE
    /\ last' = [op |-> "SuppressRepeats"]
    /\ script' = Track(script, [op |-> "SuppressRepeats"], NoCallback)
    /\ script2' = TrackAlong(Overwrite, script2, [op |-> "SuppressRepeats"], NoCallback)
    /\ UNCHANGED <<bindings, pressed, fired, recent, tally>>

\* RegisterBinding
RegisterBinding(combo, cb) ==
    LET norm == normalizeCombo(combo)
    IN  /\ bindings' = [k \in DOMAIN bindings \cup {norm} |-> IF k = norm THEN cb ELSE bindings[k]]
        /\ last' = [op |-> "RegisterBinding", combo |-> combo]
        /\ script' = Track(script, [op |-> "RegisterBinding", combo |-> combo, cb |-> cb], NoCallback)
        /\ script2' = TrackAlong(Overwrite, script2,
                                 [op |-> "RegisterBinding", combo |-> combo, cb |-> cb], NoCallback)
        /\ UNCHANGED <<pressed, fired, suppressRepeats, recent, tally>>

\* HandleEvent
HandleEvent(ev) ==
    LET key == ev.Key
        pressed1 == PressedAfter(pressed, ev)
        fired1 == FiredAfter(fired, ev, suppressRepeats)
    IN  /\ pressed' = pressed1
        /\ recent' = RecentAfter(recent, ev)
        /\ UNCHANGED <<bindings, suppressRepeats>>
        /\ IF FiringCheck(ev)
           THEN \E order \in RangeOrders(pressed1) :
                  LET combo == Candidate(order, key)
                      spawned == IF Suppressed(fired1, combo, suppressRepeats)
                                 THEN NoCallback
                                 ELSE Dispatch(bindings, combo)
                  IN  /\ fired' = Recorded(fired1, combo, suppressRepeats)
                      /\ last' = [op |-> "HandleEvent", ev |-> ev, combo |-> <<combo>>, spawned |-> spawned]
                      /\ script' = Track(script, [op |-> "HandleEvent", ev |-> ev], spawned)
                      /\ script2' = TrackAlong(Overwrite, script2, [op |-> "HandleEvent", ev |-> ev], spawned)
                      /\ tally' = TallyAfter(tally, ev, <<combo>>, spawned, suppressRepeats)
           ELSE /\ fired' = fired1
                /\ last' = [op |-> "HandleEvent", ev |-> ev, combo |-> << >>, spawned |-> NoCallback]
                /\ script' = Track(script, [op |-> "HandleEvent", ev |-> ev], NoCallback)
                /\ script2' = TrackAlong(Overwrite, script2, [op |-> "HandleEvent", ev |-> ev], NoCallback)
                /\ tally' = TallyAfter(tally, ev, << >>, NoCallback, suppressRepeats)

\* RegisterBinding(combo, _) keeps the Registry within MaxBindings keys.
WithinBound(combo) ==
    normalizeCombo(combo) \in DOMAIN bindings \/ Cardinality(DOMAIN bindings) < MaxBindings

\* The calls made one after the other by a single goroutine
Next ==
    \/ SuppressRepeats /\ UNCHANGED <<concVars, listenVars>>
    \/ \E combo \in Specifiers, cb \in Callbacks :
          WithinBound(combo) /\ RegisterBinding(combo, cb) /\ UNCHANGED <<concVars, listenVars>>
    \/ \E ev \in Events : HandleEvent(ev) /\ UNCHANGED <<concVars, listenVars>>

Spec == Init /\ [][Next]_vars

\* NewManager, then SuppressRepeats before anything else
InitSuppressed ==
    /\ bindings = << >>
    /\ pressed = {}
    /\ fired = {}
    /\ suppressRepeats = TRUE
    /\ last = [op |-> "SuppressRepeats"]
    /\ recent = [k \in Keys |-> -1]
    /\ script = Track([pos |-> 0, n |-> 0], [op |-> "SuppressRepeats"], NoCallback)
    /\ script2 = TrackAlong(Overwrite, [pos |-> 0, n |-> 0], [op |-> "SuppressRepeats"], NoCallback)
    /\ tally = [on |-> TRUE, n |-> << >>]
    /\ ThreadsIdle
    /\ NotListening

\* The Manager with suppression enabled from the start
SpecSuppressed == InitSuppressed /\ [][Next]_vars

\* The Manager fed the events of both Ctrl keys and of two non-modifier keys.
SidesKeys == {KEY_LEFTCTRL, KEY_RIGHTCTRL, KEY_T, KEY_O}

SidesEvents == {Event(k, t) : k \in SidesKeys, t \in EventTypes}

SidesSpecifiers == {CTRL_T, str_T}

InitSides ==
    /\ bindings = << >>
    /\ pressed = {}
    /\ fired = {}
    /\ suppressRepeats = FALSE
    /\ last = [op |-> "NewManager"]
    /\ recent = [k \in SidesKeys |-> -1]
    /\ script = [pos |-> 0, n |-> 0]
    /\ script2 = [pos |-> 0, n |-> 0]
    /\ tally = TallyOff
    /\ ThreadsIdle
    /\ NotListening

NextSides ==
    \/ SuppressRepeats /\ UNCHANGED <<concVars, listenVars>>
    \/ \E combo \in SidesSpecifiers, cb \in Callbacks :
          WithinBound(combo) /\ RegisterBinding(combo, cb) /\ UNCHANGED <<concVars, listenVars>>
    \/ \E ev \in SidesEvents : HandleEvent(ev) /\ UNCHANGED <<concVars, listenVars>>

SpecSides == InitSides /\ [][NextSides]_vars

-----------------------------------------------------------------------------
(* The goroutines of a program that uses the Manager *)

\* sync.Mutex: Lock returns only once the mutex is unlocked.
CanLock_Always(m) == TRUE

CanLock(m) == m = FALSE

\* HandleEvent starts a callback with `go cb()` and goes on: of the goroutines
\* gs it started, it waits for none before it returns.
Awaited_All(gs) == {i \in DOMAIN gs : gs[i].pc # "done"}

Awaited(gs) == {}

\* The events the pump receives
ConcEvents == {Event(KEY_T, Press), Event(KEY_T, Release)}

\* The goroutines that register bindings and switch suppression on
Registrars == {"reg1", "reg2"}

\* The call a registrar makes
RegCallOf(r) ==
    IF r = "reg1"
    THEN [op |-> "RegisterBinding", combo |-> str_T, cb |-> "cb1"]
    ELSE [op |-> "RegisterBinding", combo |-> str_T, cb |-> "cb2"]

\* What a callback does: cb1 makes one call of the Manager that dispatched it
\* and returns, cb2 never returns.
Reenters(cb) == cb = "cb1"

\* The calls cb1 makes
CallbackCalls ==
    {[op |-> "RegisterBinding", combo |-> CTRL_T, cb |-> "cb1"],
     [op |-> "SuppressRepeats"],
     [op |-> "HandleEvent", ev |-> Event(KEY_T, Release)]}

\* The positions between Lock and Unlock
Critical == {"body", "return", "write", "unlock"}

\* The number of goroutines between Lock and Unlock
Holders ==
    (IF pump.pc \in Critical THEN 1 ELSE 0)
    + Cardinality({r \in DOMAIN regs : regs[r].pc \in Critical})
    + Cardinality({i \in DOMAIN gor : gor[i].pc \in Critical})

Apply(call) ==
    CASE call.op = "SuppressRepeats" -> SuppressRepeats
      [] call.op = "RegisterBinding" -> RegisterBinding(call.combo, call.cb)
      [] call.op = "HandleEvent" -> HandleEvent(call.ev)

\* The assignment between Lock and Unlock.  Made while another goroutine is
\* between Lock and Unlock it is a data race, and the write may be lost.
Write(call) ==
    IF Holders > 1
    THEN Apply(call) \/ UNCHANGED mgrVars
    ELSE Apply(call)

\* The Registry key of a RegisterBinding call
KeysOf(call) ==
    IF call.op = "RegisterBinding" THEN {normalizeCombo(call.combo)} ELSE {}

\* for ev := range events { mgr.HandleEvent(ev) }
PumpCall ==
    /\ pump.pc = "idle"
    /\ pump.n < MaxPumped
    /\ \E ev \in ConcEvents : pump' = [pc |-> "lock", n |-> pump.n, ev |-> ev]
    /\ UNCHANGED <<mgrVars, mu, regs, gor, completed, listenVars>>

\* HandleEvent: m.mu.Lock()
PumpLock ==
    /\ pump.pc = "lock"
    /\ CanLock(mu)
    /\ mu' = TRUE
    /\ pump' = [pump EXCEPT !.pc = "body"]
    /\ UNCHANGED <<mgrVars, regs, gor, completed, listenVars>>

\* HandleEvent: the body, and `go cb()`
PumpBody ==
    /\ pump.pc = "body"
    /\ HandleEvent(pump.ev)
    /\ gor' = IF last'.spawned # NoCallback
              THEN Append(gor, [cb |-> last'.spawned, pc |-> "run"])
              ELSE gor
    /\ pump' = [pump EXCEPT !.pc = "return"]
    /\ UNCHANGED <<mu, regs, completed, listenVars>>

\* HandleEvent returns: the deferred m.mu.Unlock()
PumpReturn ==
    /\ pump.pc = "return"
    /\ Awaited(gor) = {}
    /\ mu' = FALSE
    /\ pump' = [pc |-> "idle", n |-> pump.n + 1]
    /\ UNCHANGED <<mgrVars, regs, gor, completed, listenVars>>

\* A registrar calls RegisterBinding or SuppressRepeats
RegCall(r) ==
    /\ regs[r].pc = "idle"
    /\ regs' = [regs EXCEPT ![r] = [pc |-> "lock", call |-> RegCallOf(r)]]
    /\ UNCHANGED <<mgrVars, mu, pump, gor, completed, listenVars>>

RegLock(r) ==
    /\ regs[r].pc = "lock"
    /\ CanLock(mu)
    /\ mu' = TRUE
    /\ regs' = [regs EXCEPT ![r].pc = "write"]
    /\ UNCHANGED <<mgrVars, pump, gor, completed, listenVars>>

RegWrite(r) ==
    /\ regs[r].pc = "write"
    /\ Write(regs[r].call)
    /\ regs' = [regs EXCEPT ![r].pc = "unlock"]
    /\ UNCHANGED <<mu, pump, gor, completed, listenVars>>

RegUnlock(r) ==
    /\ regs[r].pc = "unlock"
    /\ mu' = FALSE
    /\ regs' = [regs EXCEPT ![r] = [pc |-> "done"]]
    /\ completed' = completed \cup KeysOf(regs[r].call)
    /\ UNCHANGED <<mgrVars, pump, gor, listenVars>>

\* A callback that calls the Manager that dispatched it
GoCall(i) ==
    /\ i \in DOMAIN gor
    /\ gor[i].pc = "run"
    /\ Reenters(gor[i].cb)
    /\ \E call \in CallbackCalls :
          gor' = [gor EXCEPT ![i] = [cb |-> gor[i].cb, pc |-> "lock", call |-> call]]
    /\ UNCHANGED <<mgrVars, mu, pump, regs, completed, listenVars>>

GoLock(i) ==
    /\ i \in DOMAIN gor
    /\ gor[i].pc = "lock"
    /\ CanLock(mu)
    /\ mu' = TRUE
    /\ gor' = [gor EXCEPT ![i].pc = "write"]
    /\ UNCHANGED <<mgrVars, pump, regs, completed, listenVars>>

GoWrite(i) ==
    /\ i \in DOMAIN gor
    /\ gor[i].pc = "write"
    /\ Write(gor[i].call)
    /\ gor' = [gor EXCEPT ![i].pc = "unlock"]
    /\ UNCHANGED <<mu, pump, regs, completed, listenVars>>

\* The call returns, and the callback after it
GoUnlock(i) ==
    /\ i \in DOMAIN gor
    /\ gor[i].pc = "unlock"
    /\ mu' = FALSE
    /\ gor' = [gor EXCEPT ![i] = [cb |-> gor[i].cb, pc |-> "done"]]
    /\ completed' = completed \cup KeysOf(gor[i].call)
    /\ UNCHANGED <<mgrVars, pump, regs, listenVars>>

InitConc ==
    /\ bindings = << >>
    /\ pressed = {}
    /\ fired = {}
    /\ suppressRepeats = FALSE
    /\ last = [op |-> "NewManager"]
    /\ recent = [k \in Keys |-> -1]
    /\ script = [pos |-> 0, n |-> 0]
    /\ script2 = [pos |-> 0, n |-> 0]
    /\ tally = TallyOff
    /\ mu = FALSE
    /\ pump = [pc |-> "idle", n |-> 0]
    /\ regs = [r \in Registrars |-> [pc |-> "idle"]]
    /\ gor = << >>
    /\ completed = {}
    /\ NotListening

NextConc ==
    \/ PumpCall
    \/ PumpLock
    \/ PumpBody
    \/ PumpReturn
    \/ \E r \in Registrars : RegCall(r)
    \/ \E r \in Registrars : RegLock(r)
    \/ \E r \in Registrars : RegWrite(r)
    \/ \E r \in Registrars : RegUnlock(r)
    \/ \E i \in 1..MaxPumped : GoCall(i)
    \/ \E i \in 1..MaxPumped : GoLock(i)
    \/ \E i \in 1..MaxPumped : GoWrite(i)
    \/ \E i \in 1..MaxPumped : GoUnlock(i)

\* What a goroutine does once it has made a call of the Manager
PumpStep == PumpLock \/ PumpBody \/ PumpReturn

RegStep(r) == RegLock(r) \/ RegWrite(r) \/ RegUnlock(r)

GoStep(i) == GoCall(i) \/ GoLock(i) \/ GoWrite(i) \/ GoUnlock(i)

\* A goroutine that has made a call of the Manager takes its next step
Running ==
    \/ PumpStep
    \/ \E r \in Registrars : RegStep(r)
    \/ \E i \in 1..MaxPumped : GoStep(i)

\* The scheduler does not stop while a goroutine in a call can run.  Nothing
\* makes the pump or a registrar start a call, and nothing makes cb2 return.
SpecConc ==
    /\ InitConc
    /\ [][NextConc]_vars
    /\ WF_vars(Running)

----------------------------------------------------------------------------
(* Listen *)

\* evdev.InputEvent.Type: key events and the others
EV_KEY == "EV_KEY"

EV_SYN == "EV_SYN"

\* evdev.InputEvent: the events ReadOne returns (CodeName is the name of Code)
InputEvents == [Type : {EV_KEY, EV_SYN}, CodeName : {KEY_T}, Value : {0, 1, 2, 3}]

\* What the loop sends for an input event: nothing, or one Event
Converted_AnyType(ev) ==
    CASE ev.Value = 0 -> <<Event(ev.CodeName, Release)>>
      [] ev.Value = 1 -> <<Event(ev.CodeName, Press)>>
      [] ev.Value = 2 -> <<Event(ev.CodeName, Hold)>>
      [] OTHER -> << >>

Converted(ev) ==
    IF ev.Type # EV_KEY
    THEN << >>
    ELSE CASE ev.Value = 0 -> <<Event(ev.CodeName, Release)>>
           [] ev.Value = 1 -> <<Event(ev.CodeName, Press)>>
           [] ev.Value = 2 -> <<Event(ev.CodeName, Hold)>>
           [] OTHER -> << >>

\* Listen returned the channel: the goroutine is about to read.
InitListen ==
    /\ bindings = << >>
    /\ pressed = {}
    /\ fired = {}
    /\ suppressRepeats = FALSE
    /\ last = [op |-> "NewManager"]
    /\ recent = [k \in Keys |-> -1]
    /\ script = [pos |-> 0, n |-> 0]
    /\ script2 = [pos |-> 0, n |-> 0]
    /\ tally = TallyOff
    /\ mu = FALSE
    /\ pump = [pc |-> "idle", n |-> 0]
    /\ regs = << >>
    /\ gor = << >>
    /\ completed = {}
    /\ rd = [pc |-> "read", pend |-> << >>]
    /\ reads = << >>
    /\ got = << >>
    /\ consumer = "receive"

\* dev.ReadOne() returns an input event: continue, or go on to send
ReadOne ==
    /\ rd.pc = "read"
    /\ Len(reads) < MaxReads
    /\ \E ev \in InputEvents :
          /\ reads' = Append(reads, ev)
          /\ rd' = IF Converted(ev) = << >>
                   THEN rd
                   ELSE [pc |-> "send", pend |-> Converted(ev)]
    /\ UNCHANGED <<mgrVars, concVars, got, consumer>>

\* dev.ReadOne() returns an error: return
ReadFails ==
    /\ rd.pc = "read"
    /\ rd' = [pc |-> "return", pend |-> << >>]
    /\ UNCHANGED <<mgrVars, concVars, reads, got, consumer>>

\* out <- Event{...} and ev, ok := <-events: the channel has no buffer
Send ==
    /\ rd.pc = "send"
    /\ consumer = "receive"
    /\ got' = got \o rd.pend
    /\ rd' = [pc |-> "read", pend |-> << >>]
    /\ UNCHANGED <<mgrVars, concVars, reads, consumer>>

\* The deferred dev.Close() and close(out)
Close ==
    /\ rd.pc = "return"
    /\ rd' = [pc |-> "closed", pend |-> << >>]
    /\ UNCHANGED <<mgrVars, concVars, reads, got, consumer>>

\* ev, ok := <-events; if !ok { return }
ReceiveClosed ==
    /\ rd.pc = "closed"
    /\ consumer = "receive"
    /\ consumer' = "returned"
    /\ UNCHANGED <<mgrVars, concVars, rd, reads, got>>

NextListen ==
    \/ ReadOne
    \/ ReadFails
    \/ Send
    \/ Close
    \/ ReceiveClosed

\* The receiver keeps receiving, and the goroutine runs its deferred calls.
\* Nothing makes the device return an event or fail.
SpecListen ==
    /\ InitListen
    /\ [][NextListen]_vars
    /\ WF_vars(Send)
    /\ WF_vars(Close)

----------------------------------------------------------------------------
(* Vocabulary of the properties *)

\* The last call was HandleEvent of a Press of a non-modifier key.
PressedNonModifier ==
    /\ last.op = "HandleEvent"
    /\ last.ev.Type = Press
    /\ ~isModifier(last.ev.Key)

\* The modifier keys currently pressed.
HeldModifiers == {k \in pressed : isModifier(k)}

\* The tokens of a combo before its last one, as a set, and their number.
ModifierTokens(combo) ==
    LET parts == Split(combo, str_PLUS)
    IN  {parts[i] : i \in 1..(Len(parts) - 1)}

NumModifierTokens(combo) == Len(Split(combo, str_PLUS)) - 1

\* Exactly the modifiers of the combo are held, one key for each.
HoldsModifiersOf(combo) ==
    /\ {modifierName(k) : k \in HeldModifiers} = ModifierTokens(combo)
    /\ Cardinality(HeldModifiers) = NumModifierTokens(combo)
    /\ Cardinality(ModifierTokens(combo)) = NumModifierTokens(combo)

\* The spellings of a specifier with its tokens in every order.
TokenOrders(c) ==
    LET parts == Split(c, str_PLUS)
    IN  {Join([i \in 1..Len(parts) |-> parts[o[i]]], str_PLUS) : o \in RangeOrders(1..Len(parts))}

----------------------------------------------------------------------------
(* Properties *)

\* C1: when a non-modifier key K is Pressed while exactly the modifiers of a registered
\* combo ending in K are held (suppression off), the candidate built is that registered
\* combo and its callback is dispatched.
C1_CandidateIsRegisteredCombo ==
    (PressedNonModifier /\ ~suppressRepeats) =>
        \A n \in DOMAIN bindings :
            (LastPart(n) = keyName(last.ev.Key) /\ HoldsModifiersOf(n))
                => (last.combo = <<n>> /\ last.spawned = bindings[n])

\* C2: after RegisterBinding of a specifier, every reordering of its tokens normalizes
\* to the same string, the Registry key just written.
C2_NormalizeCommutes ==
    last.op = "RegisterBinding" =>
        \A c \in TokenOrders(last.combo) :
            /\ normalizeCombo(c) = normalizeCombo(last.combo)
            /\ normalizeCombo(c) \in DOMAIN bindings

\* C3: SuppressRepeats, RegisterBinding("CTRL+ALT+T"), then Press CTRL, Press ALT,
\* Press T, Press T have dispatched the callback exactly once; after a further
\* Release T and Press T it has been dispatched exactly twice.
C3_SuppressedScenario ==
    /\ script.pos = 6 => script.n = 1
    /\ script.pos = 8 => script.n = 2

\* C4: with suppression off and CTRL+ALT+T registered, every Press of T while CTRL and
\* ALT are held dispatches the bound callback.
C4_EveryPressFires ==
    ( /\ ~suppressRepeats
      /\ CTRL_ALT_T \in DOMAIN bindings
      /\ last.op = "HandleEvent"
      /\ last.ev = Event(KEY_T, Press)
      /\ pressed = {KEY_LEFTCTRL, KEY_LEFTALT, KEY_T} )
    => last.spawned = bindings[CTRL_ALT_T]

\* C5: a combo is in fired only if a key whose name is the combo's last token is pressed.
C5_FiredOnlyWhileTrailingKeyPressed ==
    \A combo \in fired : \E k \in pressed : keyName(k) = LastPart(combo)

\* C5 witness: a combo stays in fired after its modifier was released, its key still held.
C5_Witness ==
    /\ suppressRepeats
    /\ CTRL_T \in fired
    /\ pressed = {KEY_T}
    /\ recent[KEY_LEFTCTRL] = Release

\* C6: a HandleEvent of a Hold event changes none of bindings, pressed, fired,
\* suppressRepeats, and starts no callback.
C6_HoldIsNoOp ==
    [][ (last'.op = "HandleEvent" /\ last'.ev.Type = Hold)
        => ( /\ UNCHANGED <<bindings, pressed, fired, suppressRepeats>>
             /\ last'.spawned = NoCallback ) ]_vars

\* C6 witness: a Hold of T was handled with CTRL and T pressed and CTRL+T bound,
\* suppression off: a Press of T would have dispatched here.
C6_Witness ==
    /\ last.op = "HandleEvent"
    /\ last.ev = Event(KEY_T, Hold)
    /\ pressed = {KEY_LEFTCTRL, KEY_T}
    /\ CTRL_T \in DOMAIN bindings
    /\ ~suppressRepeats

\* C7: pressed is exactly the set of keys whose most recent Press/Release event was a Press.
C7_PressedIsKeysDown ==
    pressed = {k \in Keys : recent[k] = Press}

\* C7 witness: a Release of T, not held, was handled while CTRL is down and ALT was released.
C7_Witness ==
    /\ last.op = "HandleEvent"
    /\ last.ev = Event(KEY_T, Release)
    /\ recent[KEY_LEFTCTRL] = Press
    /\ recent[KEY_LEFTALT] = Release
    /\ pressed = {KEY_LEFTCTRL}

\* C8: a call that starts a callback is a HandleEvent of a Press of a non-modifier key.
C8_OnlyNonModifierPressDispatches ==
    (last.op = "HandleEvent" /\ last.spawned # NoCallback) => PressedNonModifier

\* C8 witness: a Press of CTRL, handled while T is held and CTRL+T is bound, started nothing.
C8_Witness ==
    /\ last.op = "HandleEvent"
    /\ last.ev = Event(KEY_LEFTCTRL, Press)
    /\ last.spawned = NoCallback
    /\ pressed = {KEY_LEFTCTRL, KEY_T}
    /\ CTRL_T \in DOMAIN bindings
    /\ ~suppressRepeats

\* C9: with suppression on, a Release of a key removes from fired no combo whose last
\* token differs from the key's name.
C9_ReleaseKeepsOtherCombos ==
    [][ (suppressRepeats /\ last'.op = "HandleEvent" /\ last'.ev.Type = Release)
        => \A combo \in fired :
             LastPart(combo) # keyName(last'.ev.Key) => combo \in fired' ]_vars

\* C9 witness: CTRL was released and CTRL+T is still in fired.
C9_Witness ==
    /\ suppressRepeats
    /\ last.op = "HandleEvent"
    /\ last.ev = Event(KEY_LEFTCTRL, Release)
    /\ CTRL_T \in fired

\* C10: RegisterBinding("LEFTCTRL+T") writes the Registry key "CTRL+T", and the binding
\* is dispatched when T is Pressed with the left Ctrl key held.
C10_SideCollapsed ==
    /\ (last.op = "RegisterBinding" /\ last.combo = LEFTCTRL_T)
          => (normalizeCombo(last.combo) = CTRL_T /\ CTRL_T \in DOMAIN bindings)
    /\ ( /\ PressedNonModifier
          /\ ~suppressRepeats
          /\ last.ev.Key = KEY_T
          /\ pressed = {KEY_LEFTCTRL, KEY_T}
          /\ normalizeCombo(LEFTCTRL_T) \in DOMAIN bindings
          /\ DOMAIN bindings = {normalizeCombo(LEFTCTRL_T)} )
          => last.spawned = bindings[normalizeCombo(LEFTCTRL_T)]


\* The specifiers explored that differ from c in letter case at most.
CaseVariants(c) == {d \in Specifiers : ToUpper(d) = ToUpper(c)}

\* C11: a RegisterBinding writes the Registry key of every spelling that differs in
\* letter case only; after "ctrl+t" with cb1 then "CTRL+T" with cb2 the Registry holds
\* one entry, bound to cb2, and a Press of T with CTRL held then dispatches cb2.
C11_CaseVariantsOverwrite ==
    /\ last.op = "RegisterBinding" =>
          \A d \in CaseVariants(last.combo) : normalizeCombo(d) \in DOMAIN bindings
    /\ script2.pos >= 2 =>
          (DOMAIN bindings = {CTRL_T} /\ bindings[CTRL_T] = "cb2")
    /\ script2.pos = 4 => last.spawned = "cb2"

\* C11 witness: both registrations were made, then CTRL and T were pressed.
C11_Witness == script2.pos = 4 /\ script2.n = 1

\* C12: after a Press of a non-modifier key whose candidate has no Registry entry, no
\* callback was started, the key is in pressed and, with suppression on, the candidate
\* is in fired.
C12_UnregisteredCombo ==
    (PressedNonModifier /\ last.combo[1] \notin DOMAIN bindings) =>
        /\ last.spawned = NoCallback
        /\ last.ev.Key \in pressed
        /\ suppressRepeats => last.combo[1] \in fired

\* C12 witness: T was pressed with CTRL and ALT held, suppression on, only CTRL+T bound.
C12_Witness ==
    /\ PressedNonModifier
    /\ suppressRepeats
    /\ pressed = {KEY_LEFTCTRL, KEY_LEFTALT, KEY_T}
    /\ DOMAIN bindings = {CTRL_T}
    /\ last.combo[1] \in fired
    /\ last.spawned = NoCallback

\* C16: normalizing the normalized form of a registered specifier changes nothing.
C16_NormalizeIdempotent ==
    last.op = "RegisterBinding" =>
        normalizeCombo(normalizeCombo(last.combo)) = normalizeCombo(last.combo)

\* C16 witness: a specifier that normalization changes was registered.
C16_Witness ==
    /\ last.op = "RegisterBinding"
    /\ last.combo = ctrl_t
    /\ normalizeCombo(last.combo) # last.combo

\* C17: with suppression enabled from the start, no combo was dispatched more than once
\* since the last Release of its trailing key.
C17_OncePerHold ==
    tally.on => \A c \in DOMAIN tally.n : tally.n[c] <= 1

\* C17 witness: CTRL+T was dispatched, CTRL was released and pressed again, and a
\* further Press of T with CTRL held started nothing.
C17_Witness ==
    /\ tally.on
    /\ CTRL_T \in DOMAIN tally.n
    /\ PressedNonModifier
    /\ last.combo = <<CTRL_T>>
    /\ last.spawned = NoCallback
    /\ CTRL_T \in DOMAIN bindings
    /\ recent[KEY_LEFTALT] = Release


\* The parts of a combo before its last one, as a sequence.
ModifierTokenSeq(combo) ==
    LET parts == Split(combo, str_PLUS)
    IN  SubSeq(parts, 1, Len(parts) - 1)

\* C18: the candidate built on a Press of a non-modifier key names no modifier twice;
\* with both Ctrl keys held (suppression off) a Press of T builds "CTRL+T" and
\* dispatches the callback bound to "CTRL+T".
C18_ModifierNamedOnce ==
    PressedNonModifier =>
        /\ \A i, j \in 1..Len(ModifierTokenSeq(last.combo[1])) :
              i # j => ModifierTokenSeq(last.combo[1])[i] # ModifierTokenSeq(last.combo[1])[j]
        /\ ( /\ ~suppressRepeats
             /\ last.ev.Key = KEY_T
             /\ HeldModifiers = {KEY_LEFTCTRL, KEY_RIGHTCTRL} )
           => ( /\ last.combo = <<CTRL_T>>
                /\ CTRL_T \in DOMAIN bindings => last.spawned = bindings[CTRL_T] )

\* C19: a call that starts a callback is a HandleEvent of a Press of a non-modifier key,
\* and the callback is bound to a combo whose last token is the key's name and whose
\* other tokens are exactly the names of the modifiers held; with no modifier held
\* the candidate is the key's name, whatever other non-modifier keys are held.
C19_DispatchOnlyOnExactMatch ==
    /\ (last.op = "HandleEvent" /\ last.spawned # NoCallback) =>
          /\ PressedNonModifier
          /\ \E n \in DOMAIN bindings :
                /\ bindings[n] = last.spawned
                /\ LastPart(n) = keyName(last.ev.Key)
                /\ {modifierName(k) : k \in HeldModifiers} = ModifierTokens(n)
    /\ (PressedNonModifier /\ HeldModifiers = {}) =>
          last.combo = <<keyName(last.ev.Key)>>

\* C19 witness: T, bound alone, was dispatched by a Press of T with O held and no modifier.
C19_Witness ==
    /\ PressedNonModifier
    /\ last.ev.Key = KEY_T
    /\ pressed = {KEY_O, KEY_T}
    /\ last.combo = <<str_T>>
    /\ last.spawned # NoCallback

\* C13: RegisterBinding, SuppressRepeats and HandleEvent exclude one another:
\* at most one goroutine is between Lock and Unlock, and the Registry key of
\* every RegisterBinding call that returned is in the Registry.
C13_MutualExclusion ==
    /\ Holders <= 1
    /\ Holders = 1 => mu
    /\ completed \subseteq DOMAIN bindings

\* C13 case: a RegisterBinding call waits for the lock while HandleEvent
\* handles an event, after another RegisterBinding call returned.
C13_Witness ==
    /\ pump.pc = "body"
    /\ completed # {}
    /\ \E r \in Registrars :
          /\ regs[r].pc = "lock"
          /\ regs[r].call.op = "RegisterBinding"

\* C14: a callback that calls the Manager that dispatched it gets the lock and
\* its call returns: whatever happens, a state follows in which no callback is
\* waiting for the lock or has it (a callback goes from "lock" on to "done",
\* never back).
C14_CallbackCallReturns ==
    []<>(\A i \in DOMAIN gor : gor[i].pc \in {"run", "done"})

\* C14 case: the call a callback made of RegisterBinding returned, after it
\* waited for the lock while HandleEvent had it.
C14_Witness ==
    \E i \in DOMAIN gor :
        /\ gor[i].cb = "cb1"
        /\ gor[i].pc = "done"
        /\ normalizeCombo(CTRL_T) \in completed

\* C15: every HandleEvent call returns and unlocks, whatever the callbacks do.
C15_HandleEventReturns ==
    (pump.pc \in {"lock", "body", "return"}) ~> (pump.pc = "idle" /\ ~mu)

\* C15 case: an event was handled after the one that dispatched a callback
\* that never returns.
C15_Witness ==
    /\ pump.pc = "idle"
    /\ pump.n = 2
    /\ last.op = "HandleEvent"
    /\ last.ev = Event(KEY_T, Release)
    /\ pressed = {}
    /\ \E i \in DOMAIN gor : gor[i].cb = "cb2" /\ gor[i].pc = "run"

\* What C20 says the channel carries for an input event
Emitted(ev) ==
    IF ev.Type = EV_KEY /\ ev.Value \in {0, 1, 2}
    THEN <<[Key |-> ev.CodeName,
            Type |-> (0 :> Release @@ 1 :> Press @@ 2 :> Hold)[ev.Value]]>>
    ELSE << >>

RECURSIVE EmittedAll(_)
EmittedAll(evs) ==
    IF evs = << >> THEN << >> ELSE Emitted(Head(evs)) \o EmittedAll(Tail(evs))

\* C20: the events received, and the one being sent, are the key events read
\* with value 0/1/2 as Release/Press/Hold, in the order read; once a read
\* failed nothing more is received, and the channel is closed in the end.
C20_StreamClosesAfterFailure ==
    /\ [](got \o rd.pend = EmittedAll(reads))
    /\ [][rd.pc \in {"return", "closed"} => got' = got]_vars
    /\ (rd.pc = "return") ~> (rd.pc = "closed")

\* C20 case: the channel was closed after a Press and a Release were received
\* and an input event was dropped.
C20_Witness ==
    /\ rd.pc = "closed"
    /\ consumer = "returned"
    /\ Len(reads) = 3
    /\ got = <<Event(KEY_T, Press), Event(KEY_T, Release)>>

====
